---- MODULE Spec2Model ----
(***************************************************************************)
(* Model of src/Blockchain/main.rs: a mutex-guarded, in-memory proof-of-   *)
(* work chain.  main() builds one Blockchain, spawns five producer threads *)
(* that each call add_block once, joins them and prints the chain.         *)
(*                                                                         *)
(* Strings are modelled as their UTF-8 byte sequences (all text in the     *)
(* program is ASCII), so formatting, concatenation and slicing are the     *)
(* operations the code performs.  No u64 in the program can overflow       *)
(* within a run: index is at most 5 and nonce is capped by MaxNonce.       *)
(***************************************************************************)
EXTENDS Integers, Sequences, FiniteSets, Bags, TLC

\* ------------------------------------------------------------------ bounds
\* The clock is followed from second 0 to second MaxTime.
MaxTime == 1
\* The search loop of mine_block is followed up to this nonce; a search that
\* has not qualified by then is a search that does not return.
MaxNonce == 3
\* One stirred digest state in WorkFactor gives a digest with a zero prefix
\* (the real digest qualifies about once in 16^4 attempts).
WorkFactor == 2

\* ------------------------------------------------------- program constants
NumProducers == 5
Difficulty == 4
HashLen == 64

Producers == 1..NumProducers
Main == 0
Free == -1
\* The value of a local that holds no value.
Null == [none |-> TRUE]

\* ----------------------------------------------------------------- strings
RECURSIVE Dec(_)
\* format!("{}", n) for an unsigned integer: its decimal digits as ASCII.
Dec(n) == IF n < 10 THEN <<48 + n>> ELSE Dec(n \div 10) \o <<48 + (n % 10)>>

\* "0".repeat(n)
Repeat0(n) == [k \in 1..n |-> 48]

\* One lowercase hexadecimal digit as ASCII.
HexDigit(d) == IF d < 10 THEN 48 + d ELSE 87 + d

\* format!("{:x}", bytes): two lowercase hex digits per byte, high nibble first.
LowerHex(bytes) ==
    [k \in 1..(2 * Len(bytes)) |->
        LET b == bytes[(k + 1) \div 2]
        IN  IF k % 2 = 1 THEN HexDigit(b \div 16) ELSE HexDigit(b % 16)]

\* "Genesis Block"
GenesisData == <<71, 101, 110, 101, 115, 105, 115, 32, 66, 108, 111, 99, 107>>

\* BlockData without the loop variable: every thread formats "Block 1".
BlockDataSame(i) == <<66, 108, 111, 99, 107, 32>> \o Dec(1)

\* format!("Block {}", i + 1)
BlockData(i) == <<66, 108, 111, 99, 107, 32>> \o Dec(i + 1)

\* ------------------------------------------------------------------ digest
\* The sha2 crate is a library.  Its SHA-256 is modelled by a deterministic
\* digest of the same shape, built on the two running sums of the Adler-32
\* checksum, so that the digest depends on every input byte and on the order
\* of the bytes.  Sum(f) is the sum of the values of f, which must be
\* positive (every byte of the program's text is).
Sum(f) == BagCardinality(f)

\* Modulus of the two running sums (the largest prime below 2^16).
Modulus == 65521

\* Sha256::update, first sum: 1 + bytes[1] + ... + bytes[n].
SumA(bytes) == (1 + Sum(bytes)) % Modulus

\* Sha256::update, second sum: n + n*bytes[1] + (n-1)*bytes[2] + ... + bytes[n].
SumB(bytes) ==
    LET n == Len(bytes)
    IN  (n + Sum([k \in 1..n |-> (n - k + 1) * bytes[k]])) % Modulus

\* The two sums stirred into one number below 2^15.
Stir(a, b) == ((a % 4096) * (b % 4096) + (b \div 16)) % 32768

\* The first two digest bytes as a 16-bit number: zero for one stirred value
\* in WorkFactor, non-zero otherwise.
Prefix16(a, b) == IF Stir(a, b) % WorkFactor = 0 THEN 0 ELSE 1 + Stir(a, b)

\* Sha256::finalize: the 32 digest bytes; bytes 3..6 carry both sums whole,
\* so two inputs with different sums have different digests.
Finalize(a, b) ==
    [k \in 1..(HashLen \div 2) |->
        CASE k = 1 -> Prefix16(a, b) \div 256
          [] k = 2 -> Prefix16(a, b) % 256
          [] k = 3 -> a \div 256
          [] k = 4 -> a % 256
          [] k = 5 -> b \div 256
          [] k = 6 -> b % 256
          [] OTHER -> (a * k + b + k * k) % 256]

\* Each sum is computed once and named, as a value bound in a singleton set.
Sha256(bytes) ==
    CHOOSE digest \in {Finalize(a, b) : a \in {SumA(bytes)}, b \in {SumB(bytes)}} : TRUE

\* hash_block: `input` is the five fields formatted and concatenated, the
\* digest of its bytes is rendered in lowercase hex.  `input` and the digest
\* are each computed once and named, as values bound in singleton sets.
hash_block(index, timestamp, data, prev_hash, nonce) ==
    CHOOSE hash \in
        {LowerHex(digest) :
            digest \in {Sha256(input) :
                input \in {Dec(index) \o Dec(timestamp) \o data \o prev_hash \o Dec(nonce)}}} : TRUE

\* Qualifies with the slice one character long: &hash[..1] == "0".
QualifiesOneZero(hash) == SubSeq(hash, 1, 1) = Repeat0(1)

\* &hash[..4] == "0000"
Qualifies(hash) == SubSeq(hash, 1, Difficulty) = Repeat0(Difficulty)

Block(index, timestamp, data, prev_hash, hash, nonce) ==
    [index |-> index, timestamp |-> timestamp, data |-> data,
     prev_hash |-> prev_hash, hash |-> hash, nonce |-> nonce]

RECURSIVE SearchNonceAfter(_, _, _, _, _)
\* Search with the nonce incremented before the test, so that the block
\* returned carries the nonce after the one that was hashed.
SearchNonceAfter(index, timestamp, data, prev_hash, nonce) ==
    LET hash == hash_block(index, timestamp, data, prev_hash, nonce)
    IN  IF Qualifies(hash)
        THEN Block(index, timestamp, data, prev_hash, hash, nonce + 1)
        ELSE IF nonce < MaxNonce
             THEN SearchNonceAfter(index, timestamp, data, prev_hash, nonce + 1)
             ELSE Null

RECURSIVE SearchCapped(_, _, _, _, _)
\* Search with a cap on the iterations: at MaxNonce the candidate is
\* returned whatever its hash.
SearchCapped(index, timestamp, data, prev_hash, nonce) ==
    LET hash == hash_block(index, timestamp, data, prev_hash, nonce)
    IN  IF Qualifies(hash) \/ nonce >= MaxNonce
        THEN Block(index, timestamp, data, prev_hash, hash, nonce)
        ELSE SearchCapped(index, timestamp, data, prev_hash, nonce + 1)

RECURSIVE Search(_, _, _, _, _)
\* The loop of mine_block from the given nonce: the block of the first nonce
\* whose hash qualifies; Null when none up to MaxNonce does.
Search(index, timestamp, data, prev_hash, nonce) ==
    LET hash == hash_block(index, timestamp, data, prev_hash, nonce)
    IN  IF Qualifies(hash)
        THEN Block(index, timestamp, data, prev_hash, hash, nonce)
        ELSE IF nonce < MaxNonce
             THEN Search(index, timestamp, data, prev_hash, nonce + 1)
             ELSE Null

\* The genesis block built by Blockchain::new at time t.
genesis_block(t) ==
    Block(0, t, GenesisData, Repeat0(HashLen), Repeat0(HashLen), 0)

\* ------------------------------------------------------------------- state
VARIABLES
    chain,       \* Blockchain.chain: the Vec<Block> inside the Mutex
    lock,        \* owner of the Mutex: Free, Main or a producer
    clock,       \* seconds elapsed on the system clock read by now()
    main_pc,     \* position of main: "spawn", "join", "print_lock", "print", "done"
    handles,     \* number of JoinHandles pushed by the spawn loop
    joined,      \* number of handles already joined
    stdout,      \* the blocks printed by print_chain, in order
    pc,          \* position of each producer thread
    last_block,  \* add_block's last_block
    mining,      \* mine_block's locals: index, timestamp, data, prev_hash, nonce
    new_block    \* add_block's new_block

vars == <<chain, lock, clock, main_pc, handles, joined, stdout, pc, last_block, mining, new_block>>

\* now(): whole seconds on the clock.
now == clock

\* The state after `let blockchain = Arc::new(Blockchain::new())`.
Init ==
    /\ clock = 0
    /\ chain = <<genesis_block(now)>>
    /\ lock = Free
    /\ main_pc = "spawn"
    /\ handles = 0
    /\ joined = 0
    /\ stdout = <<>>
    /\ pc = [p \in Producers |-> "unspawned"]
    /\ last_block = [p \in Producers |-> Null]
    /\ mining = [p \in Producers |-> Null]
    /\ new_block = [p \in Producers |-> Null]

\* A second passes on the system clock.
Tick ==
    /\ clock < MaxTime
    /\ clock' = clock + 1
    /\ UNCHANGED <<chain, lock, main_pc, handles, joined, stdout, pc, last_block, mining, new_block>>

\* ----------------------------------------------------------------- main()
\* One iteration of `for i in 0..5 { thread::spawn(..); handles.push(..) }`.
Spawn ==
    /\ main_pc = "spawn"
    /\ handles < NumProducers
    /\ pc' = [pc EXCEPT ![handles + 1] = "lock_tail"]
    /\ handles' = handles + 1
    /\ main_pc' = IF handles + 1 = NumProducers THEN "join" ELSE "spawn"
    /\ UNCHANGED <<chain, lock, clock, joined, stdout, last_block, mining, new_block>>

\* Join that does not wait for the producer: the handle is dropped.
JoinNoWait ==
    /\ main_pc = "join"
    /\ joined < handles
    /\ joined' = joined + 1
    /\ main_pc' = IF joined + 1 = handles THEN "print_lock" ELSE "join"
    /\ UNCHANGED <<chain, lock, clock, handles, stdout, pc, last_block, mining, new_block>>

\* One iteration of `for handle in handles { handle.join().unwrap(); }`:
\* blocks until that producer's closure has returned.
Join ==
    /\ main_pc = "join"
    /\ joined < handles
    /\ pc[joined + 1] = "done"
    /\ joined' = joined + 1
    /\ main_pc' = IF joined + 1 = handles THEN "print_lock" ELSE "join"
    /\ UNCHANGED <<chain, lock, clock, handles, stdout, pc, last_block, mining, new_block>>

\* print_chain: `let chain = self.chain.lock().unwrap();`
PrintLock ==
    /\ main_pc = "print_lock"
    /\ lock = Free
    /\ lock' = Main
    /\ main_pc' = "print"
    /\ UNCHANGED <<chain, clock, handles, joined, stdout, pc, last_block, mining, new_block>>

\* print_chain: the loop over chain.iter(); the guard is dropped on return.
PrintChain ==
    /\ main_pc = "print"
    /\ stdout' = chain
    /\ lock' = Free
    /\ main_pc' = "done"
    /\ UNCHANGED <<chain, clock, handles, joined, pc, last_block, mining, new_block>>

\* LockTail that does not wait for the mutex.
LockTailNoWait(p) ==
    /\ pc[p] = "lock_tail"
    /\ lock' = p
    /\ pc' = [pc EXCEPT ![p] = "read_tail"]
    /\ UNCHANGED <<chain, clock, main_pc, handles, joined, stdout, last_block, mining, new_block>>

\* ------------------------------------------------------------- add_block
\* `self.chain.lock()` of the first statement of add_block.
LockTail(p) ==
    /\ pc[p] = "lock_tail"
    /\ lock = Free
    /\ lock' = p
    /\ pc' = [pc EXCEPT ![p] = "read_tail"]
    /\ UNCHANGED <<chain, clock, main_pc, handles, joined, stdout, last_block, mining, new_block>>

\* ReadTail with `.first()` in the place of `.last()`.
ReadTailFirst(p) ==
    /\ pc[p] = "read_tail"
    /\ last_block' = [last_block EXCEPT ![p] = chain[1]]
    /\ lock' = Free
    /\ pc' = [pc EXCEPT ![p] = "mine"]
    /\ UNCHANGED <<chain, clock, main_pc, handles, joined, stdout, mining, new_block>>

\* ReadTail with the guard bound to a variable, so that it lives on after
\* the statement.
ReadTailKeepsLock(p) ==
    /\ pc[p] = "read_tail"
    /\ last_block' = [last_block EXCEPT ![p] = chain[Len(chain)]]
    /\ pc' = [pc EXCEPT ![p] = "mine"]
    /\ UNCHANGED <<chain, lock, clock, main_pc, handles, joined, stdout, mining, new_block>>

\* `.last().unwrap().clone()`; the temporary guard is dropped at the end of
\* the statement.
ReadTail(p) ==
    /\ pc[p] = "read_tail"
    /\ last_block' = [last_block EXCEPT ![p] = chain[Len(chain)]]
    /\ lock' = Free
    /\ pc' = [pc EXCEPT ![p] = "mine"]
    /\ UNCHANGED <<chain, clock, main_pc, handles, joined, stdout, mining, new_block>>

\* mine_block that links to the predecessor's predecessor.
mine_block_prev_prev(prev_block, data, t) ==
    LET index == prev_block.index + 1
        timestamp == t
        prev_hash == prev_block.prev_hash
    IN  Search(index, timestamp, data, prev_hash, 0)

\* mine_block that counts the index from 1.
mine_block_from_one(prev_block, data, t) ==
    LET index == prev_block.index + 2
        timestamp == t
        prev_hash == prev_block.hash
    IN  Search(index, timestamp, data, prev_hash, 0)

\* mine_block called at time t: the block returned, or Null when no nonce up
\* to MaxNonce qualifies (the call does not return).
mine_block(prev_block, data, t) ==
    LET index == prev_block.index + 1
        timestamp == t
        prev_hash == prev_block.hash
    IN  Search(index, timestamp, data, prev_hash, 0)

\* `let new_block = mine_block(last_block, data);` as one step: last_block is
\* moved into the call, which touches nothing shared and takes no lock.
Mine(p) ==
    /\ pc[p] = "mine"
    /\ mining[p] = Null
    /\ \E b \in {mine_block(last_block[p], BlockData(p - 1), now)} :
         /\ b # Null
         /\ new_block' = [new_block EXCEPT ![p] = b]
    /\ last_block' = [last_block EXCEPT ![p] = Null]
    /\ pc' = [pc EXCEPT ![p] = "lock_push"]
    /\ UNCHANGED <<chain, lock, clock, main_pc, handles, joined, stdout, mining>>

\* MineEnter with the predecessor's index taken over as it is.
MineEnterSameIndex(p) ==
    /\ pc[p] = "mine"
    /\ mining[p] = Null
    /\ mining' = [mining EXCEPT ![p] =
                    [index |-> last_block[p].index,
                     timestamp |-> now,
                     data |-> BlockData(p - 1),
                     prev_hash |-> last_block[p].hash,
                     nonce |-> 0]]
    /\ last_block' = [last_block EXCEPT ![p] = Null]
    /\ UNCHANGED <<chain, lock, clock, main_pc, handles, joined, stdout, pc, new_block>>

\* The same call step by step.  Lines 67-70 of mine_block, before the loop:
\* last_block is moved into the call.
MineEnter(p) ==
    /\ pc[p] = "mine"
    /\ mining[p] = Null
    /\ mining' = [mining EXCEPT ![p] =
                    [index |-> last_block[p].index + 1,
                     timestamp |-> now,
                     data |-> BlockData(p - 1),
                     prev_hash |-> last_block[p].hash,
                     nonce |-> 0]]
    /\ last_block' = [last_block EXCEPT ![p] = Null]
    /\ UNCHANGED <<chain, lock, clock, main_pc, handles, joined, stdout, pc, new_block>>

\* MineStep that goes on to the nonce after the next one.
MineStepSkips(p) ==
    /\ pc[p] = "mine"
    /\ mining[p] # Null
    /\ \E hash \in {hash_block(mining[p].index, mining[p].timestamp, mining[p].data,
                               mining[p].prev_hash, mining[p].nonce)} :
         IF Qualifies(hash)
         THEN /\ new_block' = [new_block EXCEPT ![p] =
                     Block(mining[p].index, mining[p].timestamp, mining[p].data,
                           mining[p].prev_hash, hash, mining[p].nonce)]
              /\ mining' = [mining EXCEPT ![p] = Null]
              /\ pc' = [pc EXCEPT ![p] = "lock_push"]
         ELSE /\ mining[p].nonce < MaxNonce
              /\ mining' = [mining EXCEPT ![p].nonce = mining[p].nonce + 2]
              /\ UNCHANGED <<new_block, pc>>
    /\ UNCHANGED <<chain, lock, clock, main_pc, handles, joined, stdout, last_block>>

\* MineStep that reads the time again for every candidate.
MineStepRestamps(p) ==
    /\ pc[p] = "mine"
    /\ mining[p] # Null
    /\ \E hash \in {hash_block(mining[p].index, now, mining[p].data,
                               mining[p].prev_hash, mining[p].nonce)} :
         IF Qualifies(hash)
         THEN /\ new_block' = [new_block EXCEPT ![p] =
                     Block(mining[p].index, now, mining[p].data,
                           mining[p].prev_hash, hash, mining[p].nonce)]
              /\ mining' = [mining EXCEPT ![p] = Null]
              /\ pc' = [pc EXCEPT ![p] = "lock_push"]
         ELSE /\ mining[p].nonce < MaxNonce
              /\ mining' = [mining EXCEPT ![p] =
                              [mining[p] EXCEPT !.nonce = mining[p].nonce + 1,
                                                !.timestamp = now]]
              /\ UNCHANGED <<new_block, pc>>
    /\ UNCHANGED <<chain, lock, clock, main_pc, handles, joined, stdout, last_block>>

\* One iteration of the loop of mine_block: return the block when the hash
\* qualifies, otherwise increment the nonce.
MineStep(p) ==
    /\ pc[p] = "mine"
    /\ mining[p] # Null
    /\ \E hash \in {hash_block(mining[p].index, mining[p].timestamp, mining[p].data,
                               mining[p].prev_hash, mining[p].nonce)} :
         IF Qualifies(hash)
         THEN /\ new_block' = [new_block EXCEPT ![p] =
                     Block(mining[p].index, mining[p].timestamp, mining[p].data,
                           mining[p].prev_hash, hash, mining[p].nonce)]
              /\ mining' = [mining EXCEPT ![p] = Null]
              /\ pc' = [pc EXCEPT ![p] = "lock_push"]
         ELSE /\ mining[p].nonce < MaxNonce
              /\ mining' = [mining EXCEPT ![p].nonce = mining[p].nonce + 1]
              /\ UNCHANGED <<new_block, pc>>
    /\ UNCHANGED <<chain, lock, clock, main_pc, handles, joined, stdout, last_block>>

\* `self.chain.lock()` of the last statement of add_block.
LockPush(p) ==
    /\ pc[p] = "lock_push"
    /\ lock = Free
    /\ lock' = p
    /\ pc' = [pc EXCEPT ![p] = "push"]
    /\ UNCHANGED <<chain, clock, main_pc, handles, joined, stdout, last_block, mining, new_block>>

\* Push that appends only a block that names the current tail, and drops any
\* other.
PushIfTail(p) ==
    /\ pc[p] = "push"
    /\ chain' = IF new_block[p].prev_hash = chain[Len(chain)].hash
                THEN Append(chain, new_block[p])
                ELSE chain
    /\ new_block' = [new_block EXCEPT ![p] = Null]
    /\ lock' = Free
    /\ pc' = [pc EXCEPT ![p] = "done"]
    /\ UNCHANGED <<clock, main_pc, handles, joined, stdout, last_block, mining>>

\* Push that inserts the block at the front: `.insert(0, new_block)`.
PushFront(p) ==
    /\ pc[p] = "push"
    /\ chain' = <<new_block[p]>> \o chain
    /\ new_block' = [new_block EXCEPT ![p] = Null]
    /\ lock' = Free
    /\ pc' = [pc EXCEPT ![p] = "done"]
    /\ UNCHANGED <<clock, main_pc, handles, joined, stdout, last_block, mining>>

\* Push that writes the block over the tail: `*last_mut() = new_block`.
PushOverTail(p) ==
    /\ pc[p] = "push"
    /\ chain' = [chain EXCEPT ![Len(chain)] = new_block[p]]
    /\ new_block' = [new_block EXCEPT ![p] = Null]
    /\ lock' = Free
    /\ pc' = [pc EXCEPT ![p] = "done"]
    /\ UNCHANGED <<clock, main_pc, handles, joined, stdout, last_block, mining>>

\* Push whose guard is never dropped.
PushKeepsLock(p) ==
    /\ pc[p] = "push"
    /\ chain' = Append(chain, new_block[p])
    /\ new_block' = [new_block EXCEPT ![p] = Null]
    /\ pc' = [pc EXCEPT ![p] = "done"]
    /\ UNCHANGED <<lock, clock, main_pc, handles, joined, stdout, last_block, mining>>

\* `.push(new_block)`; the guard is dropped and the closure returns.
Push(p) ==
    /\ pc[p] = "push"
    /\ chain' = Append(chain, new_block[p])
    /\ new_block' = [new_block EXCEPT ![p] = Null]
    /\ lock' = Free
    /\ pc' = [pc EXCEPT ![p] = "done"]
    /\ UNCHANGED <<clock, main_pc, handles, joined, stdout, last_block, mining>>

\* ---------------------------------------------------------- specifications
\* The run of main() with its five concurrent producers, completing within
\* one second of the clock.
Next ==
    \/ Spawn
    \/ Join
    \/ PrintLock
    \/ PrintChain
    \/ \E p \in Producers : LockTail(p)
    \/ \E p \in Producers : ReadTail(p)
    \/ \E p \in Producers : Mine(p)
    \/ \E p \in Producers : LockPush(p)
    \/ \E p \in Producers : Push(p)

Spec == Init /\ [][Next]_vars

\* The same run under a scheduler that never leaves every runnable thread
\* waiting: as long as some thread can take a step, a step is taken.
FairSpec == Spec /\ WF_vars(Next)

\* A call of add_block is in progress: it has begun its first statement and
\* has not returned.
InCall(p) == pc[p] \in {"read_tail", "mine", "lock_push", "push"}

\* A call of add_block starts only when no other call is in progress.
SerialLockTail(p) ==
    /\ \A q \in Producers \ {p} : ~InCall(q)
    /\ LockTail(p)

\* The run with the calls of add_block fully serialized, the clock running
\* and the search loop taken one iteration at a time.
SerialNext ==
    \/ Tick
    \/ Spawn
    \/ Join
    \/ PrintLock
    \/ PrintChain
    \/ \E p \in Producers : SerialLockTail(p)
    \/ \E p \in Producers : ReadTail(p)
    \/ \E p \in Producers : MineEnter(p)
    \/ \E p \in Producers : MineStep(p)
    \/ \E p \in Producers : LockPush(p)
    \/ \E p \in Producers : Push(p)

SerialSpec == Init /\ [][SerialNext]_vars

\* ------------------------------------------------------------------ claims
\* The positions of the chain after the genesis block.
Later == 2..Len(chain)

\* chain[i] names chain[i-1] as its predecessor.
LinkedAt(i) == chain[i].prev_hash = chain[i - 1].hash
\* chain[i] carries the index after chain[i-1]'s.
IndexedAt(i) == chain[i].index = chain[i - 1].index + 1

\* Two blocks of the chain name the same predecessor and carry the same index.
Forked ==
    \E i, j \in Later :
        /\ i < j
        /\ chain[i].index = chain[j].index
        /\ chain[i].prev_hash = chain[j].prev_hash

\* C1: with the five concurrent producers, every block after the genesis
\* block has prev_hash equal to the hash of the block just before it.
C1_PrevHashLinked == \A i \in Later : LinkedAt(i)

\* C2: with the five concurrent producers, every block after the genesis
\* block has the index of the block just before it plus 1, so that no two
\* blocks of the chain share an index.
C2_IndexSuccessor ==
    /\ \A i \in Later : IndexedAt(i)
    /\ \A i, j \in 1..Len(chain) : i # j => chain[i].index # chain[j].index

\* C3: a producer whose mined block names a block that is no longer the tail
\* still appends it, unchanged, when it pushes; so two producers that read
\* the same tail both get their blocks into the chain.
C3_StaleBlockAppended ==
    [][\A p \in Producers :
          (pc[p] = "push" /\ pc'[p] = "done")
              => chain' = Append(chain, new_block[p])]_vars

\* C3, the case: two producers have returned from add_block and the chain
\* holds two blocks with the same index and the same prev_hash.
C3_ForkReached ==
    /\ Forked
    /\ \E p, q \in Producers : p # q /\ pc[p] = "done" /\ pc[q] = "done"

\* C4: with the calls of add_block fully serialized, after any number of
\* calls every block after the genesis block has the hash of the block just
\* before it as prev_hash and that block's index plus 1 as index.
C4_SerialLinkage == \A i \in Later : LinkedAt(i) /\ IndexedAt(i)

\* C4, the case: all five serialized calls have returned and main has joined
\* them, some block having needed more than one nonce.
C4_SerialRunDone ==
    /\ Len(chain) = NumProducers + 1
    /\ main_pc = "print_lock"
    /\ \E i \in Later : chain[i].nonce > 0
    /\ chain[Len(chain)].timestamp > chain[1].timestamp

\* The first Difficulty characters of a string are all "0".
ZeroPrefixed(hash) == \A k \in 1..4 : hash[k] = 48

\* C5: every block returned by mine_block, and so every block of the chain
\* after the genesis block, has a hash whose first 4 hex characters are "0".
C5_DifficultyMet ==
    /\ \A i \in Later : ZeroPrefixed(chain[i].hash)
    /\ \A p \in Producers : new_block[p] # Null => ZeroPrefixed(new_block[p].hash)

\* C5, the case: the chain holds a block that mine_block returned after
\* rejecting the hashes of two or more nonces, and another producer holds a
\* mined block not yet appended.
C5_MinedAfterRejects ==
    /\ \E i \in Later : chain[i].nonce >= 2
    /\ \E p \in Producers : new_block[p] # Null

\* hash_block applied to the fields of a block.
HashOf(b) == hash_block(b.index, b.timestamp, b.data, b.prev_hash, b.nonce)

\* C6: every block of the chain after the genesis block stores the hash of
\* its own index, timestamp, data, prev_hash and nonce; the genesis block
\* alone does not: its hash is the all-zero string, which is not the hash of
\* its fields.
C6_HashOfOwnFields ==
    /\ \A i \in Later : chain[i].hash = HashOf(chain[i])
    /\ chain[1].hash = Repeat0(HashLen)
    /\ chain[1].hash # HashOf(chain[1])

\* C6, the case: the chain holds blocks mined at a nonce above 0 on a
\* predecessor other than the genesis block.
C6_DeepBlockMined ==
    \E i \in Later : chain[i].nonce > 0 /\ chain[i].index > 1

\* The genesis block as Blockchain::new writes it.
IsGenesis(b) ==
    /\ b.index = 0
    /\ b.nonce = 0
    /\ Len(b.prev_hash) = 64 /\ \A k \in 1..64 : b.prev_hash[k] = 48
    /\ Len(b.hash) = 64 /\ \A k \in 1..64 : b.hash[k] = 48

\* C7: a freshly created Blockchain holds exactly one block, with index 0,
\* nonce 0 and prev_hash and hash both 64 characters "0"; in every later
\* state the first block of the chain is still that block.
C7_GenesisKept ==
    /\ Len(chain) = 1 /\ IsGenesis(chain[1])
    /\ [][chain'[1] = chain[1]]_vars
    /\ [](IsGenesis(chain[1]))

\* C7, the case: blocks have been appended after the genesis block.
C7_ChainGrown == Len(chain) >= 4 /\ IsGenesis(chain[1])

\* The search of a producer inside mine_block has tried every nonce the
\* model follows without finding a qualifying hash.
Exhausted(p) ==
    /\ pc[p] = "mine"
    /\ mine_block(last_block[p], BlockData(p - 1), now) = Null

\* main has joined the five producers and printed the whole chain.
Finished == main_pc = "done" /\ joined = NumProducers /\ stdout = chain

\* C8: no deadlock: under fair scheduling, unless some mining search finds no
\* qualifying nonce, the run ends with main having joined all five producers
\* and printed the chain, and before that some thread can always take a step.
C8_NoDeadlock ==
    /\ [](ENABLED Next \/ Finished \/ \E p \in Producers : Exhausted(p))
    /\ <>(Finished \/ \E p \in Producers : Exhausted(p))

\* C8, the case: all five producers have appended and main has printed the
\* six blocks.
C8_AllPrinted ==
    /\ Finished
    /\ Len(stdout) = NumProducers + 1
    /\ \A p \in Producers : pc[p] = "done"

\* C9: the mutex is held only during the tail read and during the push (and
\* by main while it prints): a producer inside mine_block never holds it.
C9_LockOnlyInCriticalSections ==
    /\ \A p \in Producers : lock = p <=> pc[p] \in {"read_tail", "push"}
    /\ lock = Main <=> main_pc = "print"
    /\ \A p \in Producers : pc[p] = "mine" => lock # p

\* C9, the case: two producers are inside mine_block at once while a third
\* holds the lock to read the tail.
C9_MiningInParallel ==
    \E p, q, r \in Producers :
        /\ p # q
        /\ pc[p] = "mine" /\ pc[q] = "mine"
        /\ pc[r] = "read_tail" /\ lock = r
        /\ Len(chain) > 1

\* C10: the chain is append-only: every step leaves the chain unchanged or
\* puts exactly one block at its end; the blocks already there keep their
\* places and their fields.
C10_AppendOnly ==
    [][\/ chain' = chain
       \/ /\ Len(chain') = Len(chain) + 1
          /\ SubSeq(chain', 1, Len(chain)) = chain]_vars

\* C10, the case: the chain has grown by several blocks, out of the order in
\* which the producers were spawned.
C10_SeveralAppends ==
    /\ Len(chain) >= 3
    /\ chain[2].data # BlockData(0)

\* The text "Block k" for a single digit k.
Payload(k) == <<66, 108, 111, 99, 107, 32, 48 + k>>

\* The producers that have returned from add_block.
Returned == {p \in Producers : pc[p] = "done"}

\* The positions of the chain that hold the payload "Block k".
Holding(k) == {i \in 1..Len(chain) : chain[i].data = Payload(k)}

\* C11: push never rejects: the chain holds the genesis block and one block
\* for every producer that has returned, whether or not that block names the
\* tail it was appended to; once all five have returned it has 6 blocks.
C11_EveryBlockAdmitted ==
    /\ Len(chain) = 1 + Cardinality(Returned)
    /\ \A p \in Returned : Holding(p) # {}
    /\ (\A p \in Producers : pc[p] = "done") => Len(chain) = 6

\* C11, the case: all five producers have returned and the chain holds a
\* block whose prev_hash is not the hash of the block before it and a block
\* whose index is not the index before it plus 1.
C11_AllAdmittedDespiteStale ==
    /\ \A p \in Producers : pc[p] = "done"
    /\ Len(chain) = 6
    /\ \E i \in Later : ~LinkedAt(i)
    /\ \E i \in Later : ~IndexedAt(i)

\* The order of the positions of a producer.
StepsInOrder(from, to) ==
    <<from, to>> \in {<<"unspawned", "lock_tail">>, <<"lock_tail", "read_tail">>,
                      <<"read_tail", "mine">>, <<"mine", "lock_push">>,
                      <<"lock_push", "push">>, <<"push", "done">>}

\* C12: each producer does one tail read, then one mine, then one append, in
\* that order and never again, with a payload of its own ("Block 1" to
\* "Block 5"); its payload is in exactly one block of the chain once it has
\* returned and in none before, so no payload is ever in two blocks.
C12_OneCycleEach ==
    /\ [][\A p \in Producers : pc'[p] # pc[p] => StepsInOrder(pc[p], pc'[p])]_vars
    /\ [](\A p \in Producers :
             /\ Cardinality(Holding(p)) = (IF pc[p] = "done" THEN 1 ELSE 0)
             /\ new_block[p] # Null => new_block[p].data = Payload(p))

\* C12, the case: the run is over and each of the five payloads is in one
\* block of the chain, in an order other than "Block 1" to "Block 5".
C12_FivePayloadsOnce ==
    /\ main_pc = "done"
    /\ \A k \in 1..5 : Cardinality(Holding(k)) = 1
    /\ \E k \in 1..5 : chain[k + 1].data # Payload(k)

\* main is at or past the call of print_chain.
Printing == main_pc \in {"print_lock", "print", "done"}

\* C13: the chain is printed only after every producer has returned: main
\* reaches print_chain only then, nothing is appended from then on, and what
\* is printed is the whole final chain of 6 blocks, in chain order.
C13_PrintedAfterAll ==
    /\ [](Printing => \A p \in Producers : pc[p] = "done")
    /\ [](stdout # <<>> => main_pc = "done" /\ stdout = chain /\ Len(stdout) = 6)
    /\ [][Printing => chain' = chain]_vars

\* C13, the case: the six blocks of a forked chain have been printed.
C13_ForkPrinted ==
    /\ main_pc = "done"
    /\ Len(stdout) = 6
    /\ \E i \in 2..6 : stdout[i].prev_hash # stdout[i - 1].hash

\* The hash of the candidate with the fields of c and the nonce n.
Candidate(c, n) == hash_block(c.index, c.timestamp, c.data, c.prev_hash, n)

\* C14: the search starts at nonce 0, goes from a nonce whose hash does not
\* qualify to the next one, and returns at the first nonce whose hash
\* qualifies, with that nonce and that hash: no smaller nonce qualifies.
C14_NoncesInOrder ==
    /\ [][\A p \in Producers :
            /\ (mining[p] = Null /\ mining'[p] # Null) => mining'[p].nonce = 0
            /\ (mining[p] # Null /\ mining'[p] # Null /\ mining'[p] # mining[p]) =>
                   /\ mining'[p].nonce = mining[p].nonce + 1
                   /\ ~ZeroPrefixed(Candidate(mining[p], mining[p].nonce))
            /\ (mining[p] # Null /\ mining'[p] = Null) =>
                   /\ new_block'[p].nonce = mining[p].nonce
                   /\ new_block'[p].hash = Candidate(mining[p], mining[p].nonce)
                   /\ ZeroPrefixed(new_block'[p].hash)]_vars
    /\ [](\A p \in Producers :
            /\ mining[p] # Null =>
                   \A n \in 0..(mining[p].nonce - 1) : ~ZeroPrefixed(Candidate(mining[p], n))
            /\ new_block[p] # Null =>
                   \A n \in 0..(new_block[p].nonce - 1) : ~ZeroPrefixed(Candidate(new_block[p], n)))

\* C14, the case: the hashes for the nonces 0 and 1 did not qualify and the
\* block was returned with the nonce 2.
C14_ReturnedAtTwo ==
    \E p \in Producers :
        /\ new_block[p] # Null
        /\ new_block[p].nonce = 2
        /\ ZeroPrefixed(new_block[p].hash)

\* C15: the search is entered with index = prev_block.index + 1, prev_hash =
\* prev_block.hash, the given payload and the time read once at entry; these
\* four stay as they are from one attempt to the next, whatever the clock
\* does, and they are the ones of the returned block.
C15_FieldsFixed ==
    [][\A p \in Producers :
         /\ (mining[p] = Null /\ mining'[p] # Null) =>
                /\ mining'[p].index = last_block[p].index + 1
                /\ mining'[p].prev_hash = last_block[p].hash
                /\ mining'[p].data = Payload(p)
                /\ mining'[p].timestamp = clock
         /\ (mining[p] # Null /\ mining'[p] # Null) =>
                /\ mining'[p].index = mining[p].index
                /\ mining'[p].timestamp = mining[p].timestamp
                /\ mining'[p].data = mining[p].data
                /\ mining'[p].prev_hash = mining[p].prev_hash
         /\ (mining[p] # Null /\ mining'[p] = Null) =>
                /\ new_block'[p].index = mining[p].index
                /\ new_block'[p].timestamp = mining[p].timestamp
                /\ new_block'[p].data = mining[p].data
                /\ new_block'[p].prev_hash = mining[p].prev_hash]_vars

\* C15, the case: a search past its first attempt whose time was read before
\* the clock moved on.
C15_ClockMovedDuringSearch ==
    \E p \in Producers :
        /\ mining[p] # Null
        /\ mining[p].nonce > 0
        /\ mining[p].timestamp < clock

\* Producer p is in mine_block, called with the tail it read, and no nonce
\* up to MaxNonce gives a hash with the zero prefix.
Unminable(p) ==
    /\ pc[p] = "mine"
    /\ last_block[p] # Null
    /\ \A n \in 0..MaxNonce :
         ~ZeroPrefixed(hash_block(last_block[p].index + 1, now, Payload(p),
                                  last_block[p].hash, n))

\* A step of main's spawn loop or of a producer other than p.
OthersStep(p) ==
    \/ Spawn
    \/ \E q \in Producers \ {p} :
         LockTail(q) \/ ReadTail(q) \/ Mine(q) \/ LockPush(q) \/ Push(q)

\* Some producer other than p has neither returned nor an empty search.
OthersPending(p) ==
    \E q \in Producers \ {p} : pc[q] # "done" /\ ~Unminable(q)

\* C16: a producer for which no nonce qualifies stays in mine_block for good:
\* it returns no block, appends nothing and holds no lock, main does not get
\* past joining it and prints nothing, and the other producers go on.
C16_SearchNeverGivesUp ==
    /\ [][\A p \in Producers : Unminable(p) => Unminable(p)']_vars
    /\ [](\A p \in Producers : Unminable(p) =>
             /\ new_block[p] = Null
             /\ Holding(p) = {}
             /\ lock # p
             /\ main_pc \in {"spawn", "join"}
             /\ joined < p
             /\ stdout = <<>>
             /\ OthersPending(p) => ENABLED OthersStep(p))

\* C16, the case: one producer is in a search that no nonce ends, the other
\* four have appended their blocks and returned, and main is joining.
C16_OthersDoneOneSearching ==
    \E p \in Producers :
        /\ Unminable(p)
        /\ \A q \in Producers \ {p} : pc[q] = "done"
        /\ Len(chain) = 5
        /\ main_pc = "join"

\* The threads inside a critical section of the chain.
InSection ==
    {p \in Producers : pc[p] \in {"read_tail", "push"}}
        \cup (IF main_pc = "print" THEN {Main} ELSE {})

\* b is a block with all six fields and hashes of 64 characters.
Complete(b) ==
    /\ DOMAIN b = {"index", "timestamp", "data", "prev_hash", "hash", "nonce"}
    /\ Len(b.prev_hash) = 64
    /\ Len(b.hash) = 64

\* Producer p obtains a tail value in this step.
TailObtained(p) == last_block[p] = Null /\ last_block'[p] # Null

\* C17: at most one thread is inside a critical section of the chain, and it
\* holds the lock; a tail value is obtained alone in the section, it is the
\* complete last block of the chain of that instant, and every tail value a
\* producer holds is a block of the chain.
C17_TailReadAtomic ==
    /\ [](Cardinality(InSection) <= 1 /\ (InSection # {} => lock \in InSection))
    /\ [][\A p \in Producers : TailObtained(p) =>
            /\ InSection = {p}
            /\ last_block'[p] = chain[Len(chain)]
            /\ Complete(last_block'[p])]_vars
    /\ [](\A p \in Producers : last_block[p] # Null =>
            /\ Complete(last_block[p])
            /\ \E i \in 1..Len(chain) : chain[i] = last_block[p])

\* C17, the case: a producer holds a mined block it read as the tail, which
\* is in the chain but no longer its last block, while another producer is
\* inside the section.
C17_TailReadThenOvertaken ==
    \E p, q \in Producers :
        /\ last_block[p] # Null
        /\ last_block[p].index >= 1
        /\ last_block[p] # chain[Len(chain)]
        /\ \E i \in 1..Len(chain) : chain[i] = last_block[p]
        /\ pc[q] = "read_tail"

\* C18: a tail read leaves the chain as it is and returns its last block;
\* an append puts its block last, so the next read returns that block, and
\* reads with no append in between return the same block: while nothing has
\* been appended, every tail value held is the genesis block.
C18_TailReadPure ==
    /\ [][\A p \in Producers : TailObtained(p) =>
            /\ chain' = chain
            /\ last_block'[p] = chain'[Len(chain')]
            /\ \A q \in Producers :
                 (last_block[q] # Null /\ \A i \in 1..Len(chain) - 1 : chain[i] # last_block[q])
                     => last_block'[p] = last_block[q]]_vars
    /\ [][\A p \in Producers : (pc[p] = "push" /\ pc'[p] = "done") =>
            chain'[Len(chain')] = new_block[p]]_vars
    /\ [](Len(chain) = 1 =>
            \A p \in Producers : last_block[p] # Null => last_block[p] = chain[1])

\* C18, the case: after an append, two producers hold the same tail value,
\* the appended block, with all six fields equal.
C18_TwoReadsOfAppended ==
    \E p, q \in Producers :
        /\ p # q
        /\ last_block[p] # Null /\ last_block[q] # Null
        /\ last_block[p] = chain[Len(chain)]
        /\ Len(chain) > 1
        /\ \A f \in {"index", "timestamp", "data", "prev_hash", "hash", "nonce"} :
             last_block[p][f] = last_block[q][f]

\* The block at j is the parent of the block at i.
ParentOf(j, i) ==
    /\ chain[i].prev_hash = chain[j].hash
    /\ chain[i].index = chain[j].index + 1

\* C19: every block of the chain after the genesis block has a parent
\* strictly earlier in the chain, whose hash is its prev_hash and whose index
\* is its index minus 1: forked or not, the chain is a tree rooted at genesis.
C19_ParentEarlier ==
    \A i \in Later : \E j \in 1..(i - 1) : ParentOf(j, i)

\* C19, the case: a block past index 1 whose parent is not the block before
\* it, in a chain of 6 blocks.
C19_ParentFurtherBack ==
    /\ Len(chain) = 6
    /\ \E i \in Later :
         /\ chain[i].index >= 2
         /\ ~ParentOf(i - 1, i)
         /\ \E j \in 1..(i - 2) : ParentOf(j, i)

\* The largest index of the chain.
MaxIndex == CHOOSE m \in {chain[i].index : i \in 1..Len(chain)} :
                \A i \in 1..Len(chain) : chain[i].index <= m

\* C20: counting positions from 0, the block at position i > 0 has an index
\* from 1 to i, so only the genesis block has index 0 and no index exceeds
\* the number of appended blocks, 5 at most; in a forked chain the largest
\* index is below the position of the tail.
C20_IndexBounds ==
    /\ chain[1].index = 0
    /\ \A i \in Later : 1 <= chain[i].index /\ chain[i].index <= i - 1
    /\ MaxIndex <= Len(chain) - 1
    /\ MaxIndex <= 5
    /\ Forked => MaxIndex < Len(chain) - 1

\* C20, the case: a forked final chain, its tail at position 5 and its
\* largest index 4.
C20_ForkedFinal ==
    /\ \A p \in Producers : pc[p] = "done"
    /\ Len(chain) = 6
    /\ Forked
    /\ MaxIndex = 4

====
